---- MODULE Spec2Model ----
(***************************************************************************)
(* Block tree management of hydranote: the blocks collection and the HTTP  *)
(* handlers of backend/app/api/routes/blocks.py, each store call of a      *)
(* handler being one atomic step of the request that runs it.              *)
(***************************************************************************)
EXTENDS Integers, Sequences, FiniteSets, TLC

\* ---------------------------------------------------------------- bounds
NumProcs == 2        \* requests in flight at the same time
NumUsers == 2        \* users when requests run one at a time
NumConcUsers == 1    \* users when requests overlap
MaxBlocks == 3       \* documents ever inserted when requests run one at a time
MaxConcBlocks == 2   \* documents ever inserted when requests overlap
MaxOrder == 0        \* largest explicit order a request supplies
MaxDepth == 2        \* moves that would store a larger depth are not issued
MaxVersion == 2      \* updates/moves of a block at this version are not issued
MaxChildren == 2     \* pushes onto a children list of this length are not issued
MaxClock == 1        \* largest reading of datetime.utcnow()
MaxMicros == 1       \* largest microsecond part of a reading below its millisecond
MaxMessages == 3     \* most messages a websocket client sends on one connection
MaxChunks == 2       \* most chunks one generate_stream call yields
MaxLimit == 1        \* largest limit of list_blocks
MaxOffset == 1       \* largest offset of list_blocks
MaxTreeDepth == 2    \* largest max_depth of get_block_tree
MaxContent == 1      \* largest payload value of content and of block_type
MaxCreated == 4      \* documents ever inserted when only creates and deletes run
MaxPage == 2         \* largest limit of list_blocks when listings are the subject

Procs == 1..NumProcs
None == 0            \* Python None: absent id, absent timestamp
Malformed == -1      \* an id string ObjectId() rejects
All == -2            \* the parent filter "all" of list_blocks
NoOrder == -1        \* order omitted from the request body
Unbounded == -1      \* $graphLookup without maxDepth
NotSet == -1         \* a field of BlockUpdate left None
Empty == -1          \* the empty string as a token or a prompt
Blank == -2          \* a string of whitespace only as a token or a prompt

\* well-formed id strings a request can carry (they may name no document)
Oids == 1..MaxBlocks
IdInputs == Oids \cup {Malformed}

VARIABLES
    blocks,     \* the blocks collection: blocks[oid] is the document with _id oid
    h,          \* h[p]: the frame of the handler serving request p
    clock,      \* the latest reading of datetime.utcnow()
    written     \* the _ids of the documents the latest store call wrote
vars == <<blocks, h, clock, written>>

\* ---------------------------------------------------------------- helpers
Range(s) == {s[i] : i \in DOMAIN s}

Max(S) == CHOOSE x \in S : \A y \in S : y <= x

\* $pull: remove every occurrence of x
RECURSIVE Pull(_, _)
Pull(s, x) ==
    IF s = <<>> THEN <<>>
    ELSE IF Head(s) = x THEN Pull(Tail(s), x)
         ELSE <<Head(s)>> \o Pull(Tail(s), x)

\* the documents of the collection
Docs == Range(blocks)

\* a query dict matches a document when every field of the query is equal
Matches(d, q) == \A f \in DOMAIN q : d[f] = q[f]

Find(q) == {d \in Docs : Matches(d, q)}

user_scoped_query_NoLiveness(user_id) == [user_id |-> user_id]

\* a base query that leaves the owner out
user_scoped_query_NoOwner(user_id) == [deleted_at |-> None]

user_scoped_query(user_id) == [user_id |-> user_id, deleted_at |-> None]

\* {"_id": oid, **q}
WithId(q, oid) == [f \in DOMAIN q \cup {"id"} |-> IF f = "id" THEN oid ELSE q[f]]

\* {**q, "parent_id": oid}
WithParent(q, oid) ==
    [f \in DOMAIN q \cup {"parent_id"} |-> IF f = "parent_id" THEN oid ELSE q[f]]

\* all orderings of a finite set of documents that .sort("order", 1) can
\* return: ascending by order, documents of equal order in any sequence
SortedByOrder(S) ==
    {s \in [1..Cardinality(S) -> S] :
        /\ \A i, j \in DOMAIN s : i # j => s[i] # s[j]
        /\ \A i, j \in DOMAIN s : i < j => s[i].order <= s[j].order}

\* a cursor that applies the limit and not the offset
SkipLimitNoSkip(s, offset, limit) ==
    SubSeq(s, 1, IF Len(s) < limit THEN Len(s) ELSE limit)

\* cursor.skip(offset).limit(limit)
SkipLimit(s, offset, limit) ==
    SubSeq(s, offset + 1, IF Len(s) < offset + limit THEN Len(s) ELSE offset + limit)

\* $graphLookup from "blocks", startWith "$children", connectFromField
\* "children", connectToField "_id", restrictSearchWithMatch deleted_at None:
\* frontier holds the ids to look up at recursion level d
RECURSIVE GraphLookupFrom(_, _, _, _)
GraphLookupFrom(frontier, found, d, maxDepth) ==
    LET hit == {x \in Docs : x.id \in frontier /\ x.deleted_at = None /\ x \notin found}
    IN  IF hit = {} \/ (maxDepth # Unbounded /\ d > maxDepth) THEN found
        ELSE GraphLookupFrom(UNION {Range(x.children) : x \in hit},
                             found \cup hit, d + 1, maxDepth)

GraphLookupDirectOnly(doc, maxDepth) ==
    {x \in Docs : x.id \in Range(doc.children) /\ x.deleted_at = None}

GraphLookup(doc, maxDepth) ==
    GraphLookupFrom(Range(doc.children), {}, 0, maxDepth)

\* ---------------------------------------------------------------- state
IdleH ==
    [pc |-> "idle", op |-> "none", user_id |-> None, block_oid |-> None,
     now |-> None, parent_oid |-> None, order |-> 0, depth |-> 0,
     new_parent_id |-> None, data_order |-> NoOrder, data_parent_id |-> None,
     content |-> NotSet, block_type |-> NotSet,
     old_parent_id |-> None, all_ids |-> {}, filter |-> None, limit |-> 0,
     offset |-> 0, max_depth |-> 0,
     status |-> 0, docs |-> <<>>, descendants |-> {}, total |-> 0,
     micros |-> 0, created |-> <<>>,
     token |-> None, websocket |-> [state |-> "connecting", sent |-> <<>>],
     received |-> 0, data |-> [action |-> "none", prompt |-> None],
     stream |-> [yielded |-> 0, raised |-> "none"]]

Init ==
    /\ blocks = <<>>
    /\ h = [p \in Procs |-> IdleH]
    /\ clock = 1
    /\ written = {}

\* the request whose response is kept for inspection until it is sent; the
\* frames of the other requests are dropped as soon as they complete
Observed == CHOOSE p \in Procs : \A q \in Procs : p <= q

\* the handler returned with the frame hp
Return(p, hp) == h' = [h EXCEPT ![p] = IF p = Observed THEN hp ELSE IdleH]

\* the handler returned a response of the given status
Reply(p, hp, status) == Return(p, [hp EXCEPT !.pc = "done", !.status = status])

\* the handler raised HTTPException(status)
Fail(p, hp, status) == Reply(p, hp, status)

\* a store call that reads, or a write that matches no document
NoWrite == blocks' = blocks /\ written' = {}

\* whether a request for operation op may arrive at p, when only requests for
\* the operations of overlap run next to each other: any request may arrive
\* while no other is in flight, and one for an operation of overlap while
\* nothing else is in flight
MayArrive(p, op, overlap) ==
    \/ /\ p = Observed
       /\ \A q \in Procs \ {Observed} : h[q].pc = "idle"
    \/ /\ op \in overlap
       /\ \A q \in Procs \ {p} : h[q].pc \in {"idle", "done"} \/ h[q].op \in overlap

\* the readings datetime.utcnow() can give: time never runs backwards
Readings == clock..MaxClock

\* the response has been sent; the request's frame is gone
Respond(p) ==
    /\ h[p].pc = "done"
    /\ h' = [h EXCEPT ![p] = IdleH]
    /\ UNCHANGED <<blocks, clock, written>>

\* ---------------------------------------------------------------- reads
\* the query list_blocks builds from its parent_id parameter
ListQuery(user_id, parent_id) ==
    IF parent_id = All THEN user_scoped_query(user_id)
    ELSE WithParent(user_scoped_query(user_id), parent_id)

\* list_blocks up to cursor.to_list
ListFind(p, sc) ==
    /\ h[p].pc = "idle"
    /\ MayArrive(p, "list", sc.overlap)
    /\ \E user_id \in sc.users, parent_id \in IdInputs \cup {None, All},
          limit \in sc.limits, offset \in 0..MaxOffset :
        LET hp == [h[p] EXCEPT !.op = "list", !.user_id = user_id,
                               !.filter = parent_id, !.limit = limit,
                               !.offset = offset]
        IN  IF parent_id = Malformed THEN Fail(p, hp, 400)
            ELSE \E s \in SortedByOrder(Find(ListQuery(user_id, parent_id))) :
                    h' = [h EXCEPT ![p] = [hp EXCEPT !.pc = "list_count",
                                               !.docs = SkipLimit(s, offset, limit)]]
    /\ NoWrite
    /\ UNCHANGED clock

\* list_blocks: count_documents and the response
ListCount(p) ==
    /\ h[p].pc = "list_count"
    /\ Reply(p, [h[p] EXCEPT !.total =
                    Cardinality(Find(ListQuery(h[p].user_id, h[p].filter)))], 200)
    /\ NoWrite
    /\ UNCHANGED clock

ReadOps == {"get", "tree", "children"}
WriteOps == {"update", "move", "delete"}

\* the new_parent_id and new_order a request body can carry: those of a
\* BlockMove for move_block, none for the other operations
NewParentIds(op) == IF op = "move" THEN IdInputs \cup {None} ELSE {None}
NewOrders(op) == IF op = "move" THEN 0..MaxOrder ELSE {0}

\* the values a field of the request body of update_block carries, out of
\* the given ones: a payload or None; no such field for the other operations
Partials(op, values) == IF op = "update" THEN values ELSE {NotSet}

\* a field of BlockUpdate: None or any payload, the one create_block stores
\* included
AnyPayload == (0..MaxContent) \cup {NotSet}

\* a field of BlockUpdate: None or a payload other than the stored one
NewPayload == (1..MaxContent) \cup {NotSet}

OwnershipQueryNoLiveness(oid, user_id) == [id |-> oid, user_id |-> user_id]

\* the query of require_block_ownership: {"_id": oid, "user_id": user_id,
\* "deleted_at": None}
OwnershipQuery(oid, user_id) == [id |-> oid, user_id |-> user_id, deleted_at |-> None]

\* the dependency that runs before every handler with a block_id path parameter
require_block_ownership(p, sc, ops) ==
    /\ h[p].pc = "idle"
    /\ \E op \in ops, user_id \in sc.users, block_id \in IdInputs :
       \E new_parent_id \in NewParentIds(op), new_order \in NewOrders(op),
          content \in Partials(op, sc.contents),
          block_type \in Partials(op, sc.types) :
        LET hp == [h[p] EXCEPT !.op = op, !.user_id = user_id,
                               !.block_oid = block_id,
                               !.new_parent_id = new_parent_id,
                               !.order = new_order,
                               !.content = content,
                               !.block_type = block_type]
        IN  /\ MayArrive(p, op, sc.overlap)
            /\ IF block_id = Malformed THEN Fail(p, hp, 400)
               ELSE IF Find(OwnershipQuery(block_id, user_id)) = {}
                    THEN Fail(p, hp, 404)
                    ELSE h' = [h EXCEPT ![p] = [hp EXCEPT !.pc = op]]
    /\ NoWrite
    /\ UNCHANGED clock

\* block_to_response(doc) for a document whose datetimes carry micros
\* microseconds below the millisecond: the one create_block built holds the
\* reading of datetime.utcnow() as it was taken, one decoded from the store
\* holds BSON datetimes, which are whole milliseconds
block_to_response(doc, micros) ==
    [id |-> doc.id, user_id |-> doc.user_id, parent_id |-> doc.parent_id,
     children |-> doc.children, order |-> doc.order, depth |-> doc.depth,
     content |-> doc.content, block_type |-> doc.block_type,
     version |-> doc.version,
     created_at |-> <<doc.created_at, micros>>,
     updated_at |-> <<doc.updated_at, micros>>]

\* the caller of a successful create_block asks get_block for the id it was
\* returned, keeping the response of create_block: require_block_ownership
GetCreated(p) ==
    /\ h[p].pc = "done" /\ h[p].op = "create" /\ h[p].status = 201
    /\ LET hp == [IdleH EXCEPT !.op = "get", !.user_id = h[p].user_id,
                               !.block_oid = h[p].block_oid,
                               !.created = <<block_to_response(h[p].docs[1], h[p].micros)>>]
       IN  IF Find(OwnershipQuery(hp.block_oid, hp.user_id)) = {}
           THEN Fail(p, hp, 404)
           ELSE h' = [h EXCEPT ![p] = [hp EXCEPT !.pc = "get"]]
    /\ NoWrite
    /\ UNCHANGED clock

\* get_block
GetBlock(p) ==
    /\ h[p].pc = "get"
    /\ LET found == Find(WithId(user_scoped_query(h[p].user_id), h[p].block_oid))
       IN  IF found = {} THEN Fail(p, h[p], 404)
           ELSE \E doc \in found : Reply(p, [h[p] EXCEPT !.docs = <<doc>>], 200)
    /\ NoWrite
    /\ UNCHANGED clock

\* get_block_tree
GetBlockTree(p) ==
    /\ h[p].pc = "tree"
    /\ \E max_depth \in 1..MaxTreeDepth :
        LET result == Find([id |-> h[p].block_oid, user_id |-> h[p].user_id])
            hp == [h[p] EXCEPT !.max_depth = max_depth]
        IN  IF result = {} THEN Fail(p, hp, 404)
            ELSE \E doc \in result :
                    Reply(p, [hp EXCEPT !.docs = <<doc>>,
                                        !.descendants = GraphLookup(doc, max_depth)], 200)
    /\ NoWrite
    /\ UNCHANGED clock

ChildrenQuery(user_id, block_oid) == WithParent(user_scoped_query(user_id), block_oid)

\* get_children up to cursor.to_list
GetChildrenFind(p) ==
    /\ h[p].pc = "children"
    /\ \E s \in SortedByOrder(Find(ChildrenQuery(h[p].user_id, h[p].block_oid))) :
        h' = [h EXCEPT ![p].pc = "children_count", ![p].docs = s]
    /\ NoWrite
    /\ UNCHANGED clock

\* get_children: count_documents and the response
GetChildrenCount(p) ==
    /\ h[p].pc = "children_count"
    /\ Reply(p, [h[p] EXCEPT !.total =
                    Cardinality(Find(ChildrenQuery(h[p].user_id, h[p].block_oid)))], 200)
    /\ NoWrite
    /\ UNCHANGED clock

\* ---------------------------------------------------------------- create
\* the values of data.order in the body of create_block
DataOrders == (0..MaxOrder) \cup {NoOrder}

\* creates that have not inserted their document yet
PendingInserts ==
    Cardinality({q \in Procs : h[q].pc \in {"create_order", "create_insert"}})

\* a create_block request may arrive
CanCreate(p, sc) ==
    /\ h[p].pc = "idle"
    /\ MayArrive(p, "create", sc.overlap)
    /\ Len(blocks) + PendingInserts < sc.maxBlocks

\* the frame of create_block on entry, before any store call
CreateEntry(p, user_id, order, now, micros) ==
    [h[p] EXCEPT !.op = "create", !.user_id = user_id, !.now = now,
                 !.micros = micros,
                 !.data_order = order,
                 !.order = order, !.parent_oid = None, !.depth = 0]

\* create_block with data.parent_id: validate the parent
CreateFindParent(p, sc) ==
    /\ CanCreate(p, sc)
    /\ \E user_id \in sc.users, parent_id \in IdInputs, now \in Readings,
          micros \in sc.micros, order \in sc.orders :
        LET hp == [CreateEntry(p, user_id, order, now, micros)
                      EXCEPT !.data_parent_id = parent_id]
            parent == Find(WithId(user_scoped_query(user_id), parent_id))
        IN  /\ clock' = now
            /\ IF parent_id = Malformed THEN Fail(p, hp, 400)
               ELSE IF parent = {} THEN Fail(p, [hp EXCEPT !.parent_oid = parent_id], 404)
               ELSE \E par \in parent :
                      /\ par.depth + 1 <= MaxDepth
                      /\ Len(par.children) < MaxChildren
                      /\ h' = [h EXCEPT ![p] =
                                 [hp EXCEPT !.parent_oid = parent_id,
                                            !.depth = par.depth + 1,
                                            !.pc = IF order = NoOrder THEN "create_order"
                                                   ELSE "create_insert"]]
    /\ NoWrite

\* the number of siblings as the order to assign
NextOrderCount(user_id, parent_oid) ==
    Cardinality(Find(WithParent(user_scoped_query(user_id), parent_oid)))

\* find_one(siblings_query, sort=[("order", -1)]): the order to assign
NextOrder(user_id, parent_oid) ==
    LET siblings == Find(WithParent(user_scoped_query(user_id), parent_oid))
    IN  IF siblings = {} THEN 0 ELSE Max({d.order : d \in siblings}) + 1

FindMaxOrder(p, hp) ==
    h' = [h EXCEPT ![p] = [hp EXCEPT !.pc = "create_insert",
                                     !.order = NextOrder(hp.user_id, hp.parent_oid)]]

\* create_block without data.order: the sibling of largest order (the
\* handler's first store call when there is no data.parent_id)
CreateFindMaxOrder(p, sc) ==
    /\ \/ /\ h[p].pc = "create_order"
          /\ FindMaxOrder(p, h[p])
          /\ UNCHANGED clock
       \/ /\ CanCreate(p, sc)
          /\ NoOrder \in sc.orders
          /\ \E user_id \in sc.users, now \in Readings, micros \in sc.micros :
                /\ FindMaxOrder(p, CreateEntry(p, user_id, NoOrder, now, micros))
                /\ clock' = now
    /\ NoWrite

\* the document create_block builds
NewDoc(hp, oid) ==
    [id |-> oid, user_id |-> hp.user_id, parent_id |-> hp.parent_oid,
     children |-> <<>>, order |-> hp.order, depth |-> hp.depth, content |-> 0,
     block_type |-> 0,
     version |-> 1, created_at |-> hp.now, updated_at |-> hp.now,
     deleted_at |-> None]

InsertOne(p, hp) ==
    LET doc == NewDoc(hp, Len(blocks) + 1)
        hq == [hp EXCEPT !.docs = <<doc>>, !.block_oid = doc.id]
    IN  /\ blocks' = Append(blocks, doc)
        /\ written' = {doc.id}
        /\ IF hp.parent_oid # None
           THEN h' = [h EXCEPT ![p] = [hq EXCEPT !.pc = "create_push"]]
           ELSE Reply(p, hq, 201)

\* create_block: insert_one once the parent and the order are known
CreateInsertNext(p) ==
    /\ h[p].pc = "create_insert"
    /\ InsertOne(p, h[p])
    /\ UNCHANGED clock

\* create_block with data.order and without data.parent_id: insert_one is
\* the handler's only store call
CreateInsertFirst(p, sc) ==
    /\ CanCreate(p, sc)
    /\ \E user_id \in sc.users, order \in sc.orders \ {NoOrder}, now \in Readings,
          micros \in sc.micros :
          /\ InsertOne(p, CreateEntry(p, user_id, order, now, micros))
          /\ clock' = now

\* create_block: insert_one, and the response when there is no parent
CreateInsert(p, sc) == CreateInsertNext(p) \/ CreateInsertFirst(p, sc)

\* an update_one that appends x to children twice
PushChildTwice(oid, x, now) ==
    [blocks EXCEPT ![oid] = [@ EXCEPT !.children = Append(Append(@, x), x),
                                      !.updated_at = now]]

\* update_one({"_id": oid}, {"$push": {"children": x}, "$set": {"updated_at": now}})
PushChild(oid, x, now) ==
    [blocks EXCEPT ![oid] = [@ EXCEPT !.children = Append(@, x), !.updated_at = now]]

\* an update_one that refreshes updated_at and leaves children as they are
PullChildKeeps(oid, x, now) ==
    [blocks EXCEPT ![oid] = [@ EXCEPT !.updated_at = now]]

\* update_one({"_id": oid}, {"$pull": {"children": x}, "$set": {"updated_at": now}})
PullChild(oid, x, now) ==
    [blocks EXCEPT ![oid] = [@ EXCEPT !.children = Pull(@, x), !.updated_at = now]]

\* create_block: push the new id onto the parent's children; the response
CreatePush(p) ==
    /\ h[p].pc = "create_push"
    /\ blocks' = PushChild(h[p].parent_oid, h[p].block_oid, h[p].now)
    /\ written' = {h[p].parent_oid}
    /\ Reply(p, h[p], 201)
    /\ UNCHANGED clock

\* ---------------------------------------------------------------- update
\* update_data applied without the "$inc" of version
UpdatedKeepsVersion(doc, hp) ==
    [doc EXCEPT !.updated_at = hp.now,
                !.content = IF hp.content = NotSet THEN @ ELSE hp.content,
                !.block_type = IF hp.block_type = NotSet THEN @ ELSE hp.block_type]

\* every field of the body applied, the ones left None included
UpdatedWhole(doc, hp) ==
    [doc EXCEPT !.updated_at = hp.now, !.content = hp.content,
                !.block_type = hp.block_type, !.version = @ + 1]

\* the document after {"$set": update_data, "$inc": {"version": 1}}: the
\* fields of the body that are not None, updated_at and version (block_props
\* and ui_state are handled as content and block_type are)
Updated(doc, hp) ==
    [doc EXCEPT !.updated_at = hp.now,
                !.content = IF hp.content = NotSet THEN @ ELSE hp.content,
                !.block_type = IF hp.block_type = NotSet THEN @ ELSE hp.block_type,
                !.version = @ + 1]

\* update_block: find_one_and_update with the partial of the request
UpdateBlock(p) ==
    /\ h[p].pc = "update"
    /\ \E now \in Readings :
        LET found == Find(WithId(user_scoped_query(h[p].user_id), h[p].block_oid))
            hp == [h[p] EXCEPT !.now = now]
        IN  /\ clock' = now
            /\ IF found = {} THEN Fail(p, hp, 404) /\ NoWrite
               ELSE \E cur \in found :
                      LET result == Updated(cur, hp)
                      IN  /\ cur.version < MaxVersion
                          /\ blocks' = [blocks EXCEPT ![cur.id] = result]
                          /\ written' = {cur.id}
                          /\ Reply(p, [hp EXCEPT !.docs = <<result>>], 200)

\* ---------------------------------------------------------------- move
\* a move_block that never pulls from the old parent
MoveFirstWriteNoPull(old_parent_id, new_parent_oid) ==
    IF new_parent_oid # None THEN "move_push" ELSE "move_set"

\* the first write of move_block once its reads are done
MoveFirstWrite(old_parent_id, new_parent_oid) ==
    IF old_parent_id # None THEN "move_pull"
    ELSE IF new_parent_oid # None THEN "move_push" ELSE "move_set"

SelfParentNever(new_parent_oid, block_oid) == FALSE

\* new_parent_oid == block_oid
SelfParent(new_parent_oid, block_oid) == new_parent_oid = block_oid

\* move_block: load the current block, then check data.new_parent_id
MoveFindCurrent(p) ==
    /\ h[p].pc = "move"
    /\ \E now \in Readings :
        LET current == Find(WithId(user_scoped_query(h[p].user_id), h[p].block_oid))
            new_parent_id == h[p].new_parent_id
            hp == [h[p] EXCEPT !.now = now]
        IN  /\ clock' = now
            /\ IF current = {} THEN Fail(p, hp, 404)
               ELSE \E cur \in current :
                      LET hq == [hp EXCEPT !.old_parent_id = cur.parent_id]
                      IN  /\ cur.version < MaxVersion
                          /\ IF new_parent_id = None
                             THEN h' = [h EXCEPT ![p] =
                                          [hq EXCEPT !.pc = MoveFirstWrite(cur.parent_id, None)]]
                             ELSE IF new_parent_id = Malformed THEN Fail(p, hq, 400)
                             ELSE IF SelfParent(new_parent_id, h[p].block_oid)
                                  THEN Fail(p, [hq EXCEPT !.parent_oid = new_parent_id], 400)
                             ELSE h' = [h EXCEPT ![p] =
                                          [hq EXCEPT !.parent_oid = new_parent_id,
                                                     !.pc = "move_parent"]]
    /\ NoWrite

\* move_block: validate the new parent
MoveFindParent(p) ==
    /\ h[p].pc = "move_parent"
    /\ LET new_parent == Find(WithId(user_scoped_query(h[p].user_id), h[p].parent_oid))
       IN  IF new_parent = {} THEN Fail(p, h[p], 404)
           ELSE \E par \in new_parent :
                  /\ par.depth + 1 <= MaxDepth
                  /\ Len(par.children) < MaxChildren \/ par.id = h[p].old_parent_id
                  /\ h' = [h EXCEPT ![p].depth = par.depth + 1,
                                    ![p].pc = MoveFirstWrite(h[p].old_parent_id,
                                                             h[p].parent_oid)]
    /\ NoWrite
    /\ UNCHANGED clock

\* move_block: remove from the old parent's children
MovePull(p) ==
    /\ h[p].pc = "move_pull"
    /\ blocks' = PullChild(h[p].old_parent_id, h[p].block_oid, h[p].now)
    /\ written' = {h[p].old_parent_id}
    /\ h' = [h EXCEPT ![p].pc = IF h[p].parent_oid # None THEN "move_push" ELSE "move_set"]
    /\ UNCHANGED clock

\* move_block: add to the new parent's children
MovePush(p) ==
    /\ h[p].pc = "move_push"
    /\ blocks' = PushChild(h[p].parent_oid, h[p].block_oid, h[p].now)
    /\ written' = {h[p].parent_oid}
    /\ h' = [h EXCEPT ![p].pc = "move_set"]
    /\ UNCHANGED clock

MovedKeepsOrder(doc, hp) ==
    [doc EXCEPT !.parent_id = hp.parent_oid, !.depth = hp.depth,
                !.updated_at = hp.now, !.version = @ + 1]

MovedKeepsDepth(doc, hp) ==
    [doc EXCEPT !.parent_id = hp.parent_oid, !.order = hp.order,
                !.updated_at = hp.now, !.version = @ + 1]

\* the document after the "$set" and "$inc" of move_block's final update
Moved(doc, hp) ==
    [doc EXCEPT !.parent_id = hp.parent_oid, !.order = hp.order,
                !.depth = hp.depth, !.updated_at = hp.now, !.version = @ + 1]

\* move_block: update the block itself; the response
MoveSet(p) ==
    /\ h[p].pc = "move_set"
    /\ LET result == Moved(blocks[h[p].block_oid], h[p])
       IN  /\ blocks' = [blocks EXCEPT ![h[p].block_oid] = result]
           /\ written' = {h[p].block_oid}
           /\ Reply(p, [h[p] EXCEPT !.docs = <<result>>], 200)
    /\ UNCHANGED clock

\* ---------------------------------------------------------------- delete
AllIdsBlockOnly(doc) == {doc.id}

\* all_ids of delete_block: the block and the descendants the aggregate found
AllIds(doc) == {doc.id} \cup {d.id : d \in GraphLookup(doc, Unbounded)}

\* delete_block: the block and its subtree
DeleteAggregate(p) ==
    /\ h[p].pc = "delete"
    /\ \E now \in Readings :
        LET result == Find([id |-> h[p].block_oid, user_id |-> h[p].user_id,
                            deleted_at |-> None])
            hp == [h[p] EXCEPT !.now = now]
        IN  /\ clock' = now
            /\ IF result = {} THEN Fail(p, hp, 404)
               ELSE \E doc \in result :
                      h' = [h EXCEPT ![p] =
                              [hp EXCEPT !.pc = "delete_many",
                                         !.old_parent_id = doc.parent_id,
                                         !.all_ids = AllIds(doc)]]
    /\ NoWrite

\* delete_block: update_many over all_ids; the response when there is no parent
DeleteMany(p) ==
    /\ h[p].pc = "delete_many"
    /\ blocks' = [i \in DOMAIN blocks |->
                    IF i \in h[p].all_ids
                    THEN [blocks[i] EXCEPT !.deleted_at = h[p].now, !.updated_at = h[p].now]
                    ELSE blocks[i]]
    /\ written' = h[p].all_ids
    /\ IF h[p].old_parent_id # None
       THEN h' = [h EXCEPT ![p].pc = "delete_pull"]
       ELSE Reply(p, h[p], 204)
    /\ UNCHANGED clock

\* delete_block: remove from the parent's children; the response
DeletePull(p) ==
    /\ h[p].pc = "delete_pull"
    /\ blocks' = PullChild(h[p].old_parent_id, h[p].block_oid, h[p].now)
    /\ written' = {h[p].old_parent_id}
    /\ Reply(p, h[p], 204)
    /\ UNCHANGED clock

\* ---------------------------------------------------------------- specifications
\* the handlers that only read the collection
Reader(p, sc) ==
    \/ ListFind(p, sc) \/ ListCount(p)
    \/ require_block_ownership(p, sc, ReadOps)
    \/ GetBlock(p) \/ GetBlockTree(p)
    \/ GetChildrenFind(p) \/ GetChildrenCount(p)

\* the handlers that write the collection
Writer(p, sc) ==
    \/ CreateFindParent(p, sc) \/ CreateFindMaxOrder(p, sc)
    \/ CreateInsert(p, sc) \/ CreatePush(p)
    \/ require_block_ownership(p, sc, WriteOps)
    \/ UpdateBlock(p)
    \/ MoveFindCurrent(p) \/ MoveFindParent(p) \/ MovePull(p) \/ MovePush(p) \/ MoveSet(p)
    \/ DeleteAggregate(p) \/ DeleteMany(p) \/ DeletePull(p)

\* any request runs next to the writers, every store call a step of its own
Serve(sc) ==
    \/ Reader(Observed, sc) \/ Writer(Observed, sc) \/ Respond(Observed)
    \/ \E p \in Procs \ {Observed} : Writer(p, sc)

\* requests of one owner overlap freely
Overlapping ==
    [users |-> 1..NumConcUsers, maxBlocks |-> MaxConcBlocks,
     contents |-> NewPayload, types |-> {NotSet}, limits |-> 1..MaxLimit,
     micros |-> {0}, orders |-> DataOrders,
     overlap |-> ReadOps \cup WriteOps \cup {"list", "create"}]

Next == Serve(Overlapping)

Spec == Init /\ [][Next]_vars

\* move_block requests of one owner overlap with each other; every other
\* request runs alone
MovesOverlapping ==
    [users |-> 1..NumConcUsers, maxBlocks |-> MaxConcBlocks,
     contents |-> NewPayload, types |-> {NotSet}, limits |-> 1..MaxLimit, micros |-> {0}, orders |-> DataOrders,
     overlap |-> {"move"}]

MoveNext == Serve(MovesOverlapping)

MoveSpec == Init /\ [][MoveNext]_vars

\* the requests that change the shape of the forest (create_block, move_block,
\* delete_block) of one owner overlap with each other; every other request
\* runs alone
ShapersOverlapping ==
    [users |-> 1..NumConcUsers, maxBlocks |-> MaxConcBlocks,
     contents |-> NewPayload, types |-> {NotSet}, limits |-> 1..MaxLimit,
     micros |-> {0}, orders |-> DataOrders,
     overlap |-> {"create", "move", "delete"}]

ShapeNext == Serve(ShapersOverlapping)

ShapeSpec == Init /\ [][ShapeNext]_vars

\* one request at a time: a request arrives when the previous one has responded
OneAtATime ==
    [users |-> 1..NumUsers, maxBlocks |-> MaxBlocks,
     contents |-> NewPayload, types |-> {NotSet}, limits |-> 1..MaxLimit, micros |-> {0}, orders |-> DataOrders,
     overlap |-> {}]

SeqNext ==
    Reader(Observed, OneAtATime) \/ Writer(Observed, OneAtATime) \/ Respond(Observed)

SeqSpec == Init /\ [][SeqNext]_vars

\* update_block and move_block requests of one owner overlap with each
\* other; create_block and delete_block requests run alone; the bodies of
\* update_block carry any content
EditorsOverlapping ==
    [users |-> 1..NumConcUsers, maxBlocks |-> MaxConcBlocks,
     contents |-> AnyPayload, types |-> {NotSet}, limits |-> 1..MaxLimit,
     micros |-> {0}, orders |-> DataOrders,
     overlap |-> {"update", "move"}]

\* the handlers of update_block and move_block
Editor(p, sc) ==
    \/ require_block_ownership(p, sc, {"update", "move"})
    \/ UpdateBlock(p)
    \/ MoveFindCurrent(p) \/ MoveFindParent(p) \/ MovePull(p) \/ MovePush(p) \/ MoveSet(p)

EditNext ==
    \/ CreateFindParent(Observed, EditorsOverlapping)
    \/ CreateFindMaxOrder(Observed, EditorsOverlapping)
    \/ CreateInsert(Observed, EditorsOverlapping)
    \/ CreatePush(Observed)
    \/ require_block_ownership(Observed, EditorsOverlapping, {"delete"})
    \/ DeleteAggregate(Observed) \/ DeleteMany(Observed) \/ DeletePull(Observed)
    \/ Editor(Observed, EditorsOverlapping)
    \/ Respond(Observed)
    \/ \E p \in Procs \ {Observed} : Editor(p, EditorsOverlapping)

EditSpec == Init /\ [][EditNext]_vars

\* create_block and update_block requests only, one request at a time; the
\* bodies of update_block carry any content and any block_type
CreatingAndUpdating ==
    [users |-> 1..NumUsers, maxBlocks |-> MaxBlocks,
     contents |-> AnyPayload, types |-> AnyPayload, limits |-> 1..MaxLimit,
     micros |-> {0}, orders |-> DataOrders,
     overlap |-> {}]

UpdateNext ==
    \/ CreateFindParent(Observed, CreatingAndUpdating)
    \/ CreateFindMaxOrder(Observed, CreatingAndUpdating)
    \/ CreateInsert(Observed, CreatingAndUpdating)
    \/ CreatePush(Observed)
    \/ require_block_ownership(Observed, CreatingAndUpdating, {"update"})
    \/ UpdateBlock(Observed)
    \/ Respond(Observed)

UpdateSpec == Init /\ [][UpdateNext]_vars

\* create_block, move_block, delete_block and list_blocks requests only, one
\* request at a time, with pages of up to MaxPage blocks
Listing ==
    [users |-> 1..NumUsers, maxBlocks |-> MaxBlocks,
     contents |-> {NotSet}, types |-> {NotSet}, limits |-> 1..MaxPage,
     micros |-> {0}, orders |-> DataOrders,
     overlap |-> {}]

ListNext ==
    \/ CreateFindParent(Observed, Listing)
    \/ CreateFindMaxOrder(Observed, Listing)
    \/ CreateInsert(Observed, Listing)
    \/ CreatePush(Observed)
    \/ require_block_ownership(Observed, Listing, {"move", "delete"})
    \/ MoveFindCurrent(Observed) \/ MoveFindParent(Observed)
    \/ MovePull(Observed) \/ MovePush(Observed) \/ MoveSet(Observed)
    \/ DeleteAggregate(Observed) \/ DeleteMany(Observed) \/ DeletePull(Observed)
    \/ ListFind(Observed, Listing) \/ ListCount(Observed)
    \/ Respond(Observed)

ListSpec == Init /\ [][ListNext]_vars

\* get_block_tree and delete_block requests of one owner overlap with each
\* other; create_block requests run alone
TreeAndDeleteOverlapping ==
    [users |-> 1..NumConcUsers, maxBlocks |-> MaxBlocks,
     contents |-> {NotSet}, types |-> {NotSet}, limits |-> 1..MaxLimit,
     micros |-> {0}, orders |-> DataOrders,
     overlap |-> {"tree", "delete"}]

\* the handler of delete_block
Deleter(p, sc) ==
    \/ require_block_ownership(p, sc, {"delete"})
    \/ DeleteAggregate(p) \/ DeleteMany(p) \/ DeletePull(p)

TreeNext ==
    \/ CreateFindParent(Observed, TreeAndDeleteOverlapping)
    \/ CreateFindMaxOrder(Observed, TreeAndDeleteOverlapping)
    \/ CreateInsert(Observed, TreeAndDeleteOverlapping)
    \/ CreatePush(Observed)
    \/ require_block_ownership(Observed, TreeAndDeleteOverlapping, {"tree"})
    \/ GetBlockTree(Observed)
    \/ Deleter(Observed, TreeAndDeleteOverlapping)
    \/ Respond(Observed)
    \/ \E p \in Procs \ {Observed} : Deleter(p, TreeAndDeleteOverlapping)

TreeSpec == Init /\ [][TreeNext]_vars

\* create_block and delete_block requests only, one request at a time
CreatingAndDeleting ==
    [users |-> 1..NumUsers, maxBlocks |-> MaxCreated,
     contents |-> {NotSet}, types |-> {NotSet}, limits |-> 1..MaxLimit,
     micros |-> {0}, orders |-> DataOrders,
     overlap |-> {}]

CreateNext ==
    \/ CreateFindParent(Observed, CreatingAndDeleting)
    \/ CreateFindMaxOrder(Observed, CreatingAndDeleting)
    \/ CreateInsert(Observed, CreatingAndDeleting)
    \/ CreatePush(Observed)
    \/ require_block_ownership(Observed, CreatingAndDeleting, {"delete"})
    \/ DeleteAggregate(Observed) \/ DeleteMany(Observed) \/ DeletePull(Observed)
    \/ Respond(Observed)

CreateSpec == Init /\ [][CreateNext]_vars

\* create_block requests without data.order and delete_block requests of one
\* owner overlap with each other; there is no other request
AutoOrdering ==
    [users |-> 1..NumConcUsers, maxBlocks |-> MaxBlocks,
     contents |-> {NotSet}, types |-> {NotSet}, limits |-> 1..MaxLimit,
     micros |-> {0}, orders |-> {NoOrder},
     overlap |-> {"create", "delete"}]

AutoOrderer(p) ==
    \/ CreateFindParent(p, AutoOrdering) \/ CreateFindMaxOrder(p, AutoOrdering)
    \/ CreateInsertNext(p) \/ CreatePush(p)
    \/ require_block_ownership(p, AutoOrdering, {"delete"})
    \/ DeleteAggregate(p) \/ DeleteMany(p) \/ DeletePull(p)

AutoOrderNext ==
    \/ AutoOrderer(Observed) \/ Respond(Observed)
    \/ \E p \in Procs \ {Observed} : AutoOrderer(p)

AutoOrderSpec == Init /\ [][AutoOrderNext]_vars

\* ---------------------------------------------------------------- ai_stream
\* Python's "not x" for an optional string
Falsy(x) == x \in {None, Empty}

\* str.strip()
strip(x) == IF x = Blank THEN Empty ELSE x

\* the messages ai_stream sends
ChunkMessage(text) == [type |-> "chunk", text |-> text, user_id |-> None, message |-> ""]

\* a done message that carries no user id
DoneMessageAnonymous(user_id) ==
    [type |-> "done", text |-> <<>>, user_id |-> None, message |-> ""]

DoneMessage(user_id) ==
    [type |-> "done", text |-> <<>>, user_id |-> user_id, message |-> ""]

ErrorMessage(message) == [type |-> "error", text |-> <<>>, user_id |-> None, message |-> message]
PongMessage == [type |-> "pong", text |-> <<>>, user_id |-> None, message |-> ""]

\* websocket.send_json(message)
send_json(hp, message) ==
    [hp EXCEPT !.websocket.sent = Append(@, message)]

\* the handler returns: the connection is over
WsReturn(p, hp) ==
    h' = [h EXCEPT ![p] = [hp EXCEPT !.pc = "ws_returned", !.websocket.state = "closed"]]

\* the handler's except Exception branch: one error message, then the return
WsInternalError(p, hp) ==
    WsReturn(p, send_json(hp, ErrorMessage("Internal server error")))

\* the tokens a client can connect with: none, "", whitespace, a user id
Tokens == {None, Empty, Blank} \cup (1..NumUsers)

\* the prompts a generate message can carry: none, "", a text
Prompts == {None, Empty, 1}

\* a connection to /ws/ai/stream arrives: authenticate_websocket, and
\* websocket.accept() when it returns a user id
WsConnect(p) ==
    /\ h[p].pc = "idle"
    /\ \E token \in Tokens :
        LET hp == [h[p] EXCEPT !.op = "ai_stream", !.token = token]
        IN  IF Falsy(token) \/ strip(token) = Empty
            THEN WsReturn(p, hp)
            ELSE h' = [h EXCEPT ![p] = [hp EXCEPT !.pc = "ws_receive",
                                                  !.user_id = token,
                                                  !.websocket.state = "accepted"]]
    /\ UNCHANGED <<blocks, clock, written>>

\* websocket.receive_json() and the branch on the action of the message,
\* up to the next receive_json() or to the first step of generate_stream
WsReceive(p) ==
    /\ h[p].pc = "ws_receive"
    /\ h[p].received < MaxMessages
    /\ LET hp == [h[p] EXCEPT !.received = @ + 1]
       IN  \/ \* the client has gone: WebSocketDisconnect
              WsReturn(p, h[p])
           \/ \* the text is no JSON object: no data, the except Exception branch
              WsInternalError(p, [hp EXCEPT !.data = [action |-> "none", prompt |-> None]])
           \/ \E action \in {"ping", "generate", "other"}, prompt \in Prompts :
                LET hq == [hp EXCEPT !.data = [action |-> action, prompt |-> prompt],
                                     !.stream = [yielded |-> 0, raised |-> "none"]]
                IN  /\ action # "generate" => prompt = None
                    /\ IF action = "ping"
                       THEN h' = [h EXCEPT ![p] = send_json(hq, PongMessage)]
                       ELSE IF action = "generate"
                       THEN IF Falsy(prompt)
                            THEN h' = [h EXCEPT ![p] =
                                        send_json(hq, ErrorMessage("Prompt is required"))]
                            ELSE h' = [h EXCEPT ![p] = [hq EXCEPT !.pc = "ws_generate"]]
                       ELSE h' = [h EXCEPT ![p] = send_json(hq, ErrorMessage("Unknown action"))]
    /\ UNCHANGED <<blocks, clock, written>>

\* one step of "async for chunk in generate_stream(...)": the generator
\* yields a chunk, which is sent; or it ends, and done is sent; or it raises
\* ClaudeServiceError (get_claude_service() can too), and error is sent; or
\* it raises another exception, which ends the handler
WsStream(p) ==
    /\ h[p].pc = "ws_generate"
    /\ \/ /\ h[p].stream.yielded < MaxChunks
          /\ LET k == h[p].stream.yielded + 1
             IN  h' = [h EXCEPT ![p] =
                        send_json([h[p] EXCEPT !.stream.yielded = k],
                                  ChunkMessage(<<h[p].received, k>>))]
       \/ h' = [h EXCEPT ![p] =
                  send_json([h[p] EXCEPT !.pc = "ws_receive",
                                         !.stream.raised = "StopAsyncIteration"],
                            DoneMessage(h[p].user_id))]
       \/ h' = [h EXCEPT ![p] =
                  send_json([h[p] EXCEPT !.pc = "ws_receive",
                                         !.stream.raised = "ClaudeServiceError"],
                            ErrorMessage("ClaudeServiceError"))]
       \/ WsInternalError(p, [h[p] EXCEPT !.stream.raised = "Exception"])
    /\ UNCHANGED <<blocks, clock, written>>

\* one connection to /ws/ai/stream whose client stays connected while a
\* generation runs; the event loop keeps running the handler
WsNext == WsConnect(Observed) \/ WsReceive(Observed) \/ WsStream(Observed)

WsSpec == Init /\ [][WsNext]_vars /\ WF_vars(WsStream(Observed))

\* create_block and get_block requests only, one request at a time, with
\* readings of datetime.utcnow() that fall between two milliseconds
CreatingAndGetting ==
    [users |-> 1..NumUsers, maxBlocks |-> MaxBlocks,
     contents |-> {NotSet}, types |-> {NotSet}, limits |-> 1..MaxLimit,
     micros |-> 0..MaxMicros, orders |-> DataOrders,
     overlap |-> {}]

RoundTripNext ==
    \/ CreateFindParent(Observed, CreatingAndGetting)
    \/ CreateFindMaxOrder(Observed, CreatingAndGetting)
    \/ CreateInsert(Observed, CreatingAndGetting)
    \/ CreatePush(Observed)
    \/ GetCreated(Observed)
    \/ require_block_ownership(Observed, CreatingAndGetting, {"get"})
    \/ GetBlock(Observed)
    \/ Respond(Observed)

RoundTripSpec == Init /\ [][RoundTripNext]_vars

\* ---------------------------------------------------------------- properties
Live(d) == d.deleted_at = None

\* no request is in flight
Quiet == \A p \in Procs : h[p].pc \in {"idle", "done"}

\* the frame of the request under inspection
Obs == h[Observed]

\* the ids reachable from the ids S by following children edges, S included
RECURSIVE Descend(_)
Descend(S) ==
    LET nxt == S \cup UNION {Range(blocks[i].children) : i \in S}
    IN  IF nxt = S THEN S ELSE Descend(nxt)

\* the ids reachable from block a in one or more children hops
Descendants(a) == Descend(Range(blocks[a].children))

\* the ids reached from block b by following parent_id one or more times
RECURSIVE ParentChain(_, _)
ParentChain(b, seen) ==
    LET par == blocks[b].parent_id
    IN  IF par = None \/ par \in seen THEN seen ELSE ParentChain(par, seen \cup {par})

Ancestors(b) == ParentChain(b, {})

\* the documents a response carries
Returned(f) == Range(f.docs) \cup f.descendants

\* C1: a soft-deleted block is never returned by list_blocks, by get_children
\* or among the descendants of get_block_tree, whoever asks: neither deleted
\* when it was read nor deleted when the response is sent
C1_DeletedNeverReturned ==
    Obs.op \in {"list", "children", "tree"} =>
        \A d \in (IF Obs.op = "tree" THEN Obs.descendants ELSE Range(Obs.docs)) :
            /\ d.deleted_at = None
            /\ blocks[d.id].deleted_at = None

\* a listing of all blocks of a user who has a soft-deleted block returned a block
C1_Witness ==
    /\ Obs.pc = "done" /\ Obs.op = "list" /\ Obs.status = 200
    /\ Obs.filter = All /\ Len(Obs.docs) > 0
    /\ \E d \in Docs : d.user_id = Obs.user_id /\ ~Live(d)

\* C2: between requests that do not overlap, a live block with a parent is in
\* that parent's children, and a live block in some block's children has that
\* block as its parent
C2_Bidirectional ==
    Quiet =>
        /\ \A b \in Docs :
              Live(b) /\ b.parent_id # None =>
                  b.id \in Range(blocks[b.parent_id].children)
        /\ \A q \in Docs : \A c \in Range(q.children) :
              Live(blocks[c]) => blocks[c].parent_id = q.id

\* a block has been moved from one parent to another
C2_Witness ==
    /\ Obs.pc = "done" /\ Obs.op = "move" /\ Obs.status = 200
    /\ Obs.old_parent_id # None /\ Obs.parent_oid # None
    /\ Obs.old_parent_id # Obs.parent_oid

\* a get_block or get_block_tree of a soft-deleted block answers 404
C3_NotFound ==
    /\ Obs.pc = "done" /\ Obs.op \in {"get", "tree"}
    /\ Obs.block_oid \in DOMAIN blocks /\ ~Live(blocks[Obs.block_oid])
    => Obs.status = 404

\* the update_many of delete_block leaves the block and everything reachable
\* from it over children edges soft-deleted, stamped with the call's time when
\* it was live
C3_BatchDeletes ==
    Obs.pc = "delete_many" /\ Obs'.pc # "delete_many" =>
        \A i \in {Obs.block_oid} \cup Descendants(Obs.block_oid) :
            /\ ~Live(blocks'[i])
            /\ Live(blocks[i]) => blocks'[i].deleted_at = Obs.now

\* C3: a successful delete_block soft-deletes the block and all its
\* descendants, to any depth, in its one update_many; from then on get_block
\* and get_block_tree of any of them answer NotFound
C3_CascadeDelete == []C3_NotFound /\ [][C3_BatchDeletes]_vars

\* a block with a child and a grandchild has been deleted
C3_Witness ==
    /\ Obs.pc = "done" /\ Obs.op = "delete" /\ Obs.status = 204
    /\ \E c \in Docs :
          /\ c.parent_id # None /\ c.parent_id # Obs.block_oid
          /\ blocks[c.parent_id].parent_id = Obs.block_oid
          /\ c.id # Obs.block_oid
          /\ {c.id, c.parent_id} \subseteq Obs.all_ids
          /\ ~Live(c)

\* C4: no state, whatever the interleaving of a delete with creates and moves
\* of the same owner, holds a live block with a soft-deleted block in its
\* parent chain
C4_NoLiveUnderDeleted ==
    \A b \in Docs : Live(b) => \A a \in Ancestors(b.id) : Live(blocks[a])

\* C5: once all overlapping requests have completed, every live block is in
\* the children of the block its parent_id names and of no other block
C5_ListedUnderParentOnly ==
    Quiet =>
        \A b \in Docs : Live(b) =>
            \A q \in Docs : (b.id \in Range(q.children)) <=> (q.id = b.parent_id)

\* no block is among its own ancestors
Acyclic == \A b \in Docs : b.id \notin Ancestors(b.id)

\* C6: between requests, a live root has depth 0 and any other live block has
\* its parent's depth plus one (stated for the forests without a parent
\* cycle, the only ones in which depths can satisfy it)
C6_DepthInvariant ==
    Quiet /\ Acyclic =>
        \A b \in Docs : Live(b) =>
            b.depth = IF b.parent_id = None THEN 0 ELSE blocks[b.parent_id].depth + 1

\* C7: no live block is reached again by following parent_id from it
C7_NoCycle == \A b \in Docs : Live(b) => b.id \notin Ancestors(b.id)

\* C8: between requests, the parent_id of a live block is absent or names a
\* live block of the same owner
C8_ParentLiveSameOwner ==
    Quiet =>
        \A b \in Docs : Live(b) /\ b.parent_id # None =>
            /\ b.parent_id \in DOMAIN blocks
            /\ Live(blocks[b.parent_id])
            /\ blocks[b.parent_id].user_id = b.user_id

\* a child has been deleted while a sibling of it lives on under their live parent
C8_Witness ==
    /\ Obs.pc = "done" /\ Obs.op = "delete" /\ Obs.status = 204
    /\ \E b \in Docs :
          /\ Live(b) /\ b.parent_id # None
          /\ b.parent_id = blocks[Obs.block_oid].parent_id
          /\ Live(blocks[b.parent_id])

\* C9: a request of one user is never answered with a document of another
\* user, nor with a children list naming one, and no store call of the request
\* writes a document of another user
C9_Isolation ==
    Obs.pc # "idle" =>
        /\ \A d \in Returned(Obs) :
              /\ d.user_id = Obs.user_id
              /\ \A c \in Range(d.children) : blocks[c].user_id = Obs.user_id
        /\ \A i \in written : blocks[i].user_id = Obs.user_id

\* a request naming a live block of another user has been answered 404
C9_Witness ==
    /\ Obs.pc = "done" /\ Obs.status = 404
    /\ \/ /\ Obs.block_oid \in DOMAIN blocks
          /\ blocks[Obs.block_oid].user_id # Obs.user_id
          /\ Live(blocks[Obs.block_oid])
       \/ /\ Obs.parent_oid \in DOMAIN blocks
          /\ blocks[Obs.parent_oid].user_id # Obs.user_id
          /\ Live(blocks[Obs.parent_oid])

\* C10: after a successful move_block that no request overlapped the block
\* has the requested parent and order and its new parent's depth plus one (0 as
\* a root), is in the new parent's children and is no longer in the children of
\* a different old parent
C10_MovePostcondition ==
    Obs.pc = "done" /\ Obs.op = "move" /\ Obs.status = 200 =>
        LET b == blocks[Obs.block_oid]
        IN  /\ b.parent_id = Obs.parent_oid
            /\ b.order = Obs.order
            /\ b.depth = IF Obs.parent_oid = None THEN 0
                         ELSE blocks[Obs.parent_oid].depth + 1
            /\ Obs.parent_oid # None => b.id \in Range(blocks[Obs.parent_oid].children)
            /\ Obs.old_parent_id \notin {None, Obs.parent_oid} =>
                   b.id \notin Range(blocks[Obs.old_parent_id].children)

\* a root has been moved under another root and has depth 1
C10_Witness ==
    /\ Obs.pc = "done" /\ Obs.op = "move" /\ Obs.status = 200
    /\ Obs.old_parent_id = None /\ Obs.parent_oid # None
    /\ blocks[Obs.parent_oid].parent_id = None
    /\ blocks[Obs.block_oid].depth = 1

\* the request under inspection is a move_block whose new_parent_id is its
\* own block_id
SelfMove == Obs.op = "move" /\ Obs.new_parent_id = Obs.block_oid

\* block oid exists, is live and belongs to user_id
LiveOwned(oid, user_id) ==
    /\ oid \in DOMAIN blocks
    /\ blocks[oid].user_id = user_id
    /\ Live(blocks[oid])

\* C11 as stated: a move_block with new_parent_id equal to block_id is always
\* answered 400, whatever the existence, liveness or ownership of the block
C11_SelfMoveAlwaysInvalid ==
    Obs.pc = "done" /\ SelfMove => Obs.status = 400

\* a self-move is answered 400 when the id is malformed or names a live block
\* of the caller, and 404 otherwise
C11_Rejected ==
    Obs.pc = "done" /\ SelfMove =>
        Obs.status = IF Obs.block_oid = Malformed \/ LiveOwned(Obs.block_oid, Obs.user_id)
                     THEN 400 ELSE 404

\* no step of a self-move changes the collection
C11_NoWriteStep ==
    Obs'.pc # "idle" /\ Obs'.op = "move" /\ Obs'.new_parent_id = Obs'.block_oid
        => blocks' = blocks

\* C11 (amended): a move_block with new_parent_id equal to block_id always
\* fails and changes no stored state; it fails with 400 when the block is a
\* live block of the caller (or the id is malformed) and with 404 when the
\* block is missing, soft-deleted or owned by another user
C11_SelfMoveRejected == []C11_Rejected /\ [][C11_NoWriteStep]_vars

\* a self-move of a live block of the caller has been answered 400
C11_Witness ==
    /\ Obs.pc = "done" /\ SelfMove /\ Obs.status = 400
    /\ LiveOwned(Obs.block_oid, Obs.user_id)

\* the live blocks of user_id under parent_oid (the roots for None) other
\* than block oid
LiveSiblings(oid, user_id, parent_oid) ==
    {d \in Docs : /\ Live(d) /\ d.id # oid
                  /\ d.user_id = user_id /\ d.parent_id = parent_oid}

\* C12: a create_block without an explicit order stores order 1 + the largest
\* order among the live blocks of the same owner under the same parent (the
\* roots when there is no parent), and order 0 when there is none
C12_AutoOrder ==
    Obs.pc = "done" /\ Obs.op = "create" /\ Obs.status = 201
    /\ Obs.data_order = NoOrder =>
        LET b == blocks[Obs.block_oid]
            sib == LiveSiblings(b.id, b.user_id, b.parent_id)
        IN  /\ b.order = IF sib = {} THEN 0 ELSE 1 + Max({d.order : d \in sib})
            /\ Obs.docs[1].order = b.order

\* a create_block without an order next to live siblings of orders 0, 1 and 2
\* has stored order 3
C12_Witness ==
    /\ Obs.pc = "done" /\ Obs.op = "create" /\ Obs.status = 201
    /\ Obs.data_order = NoOrder
    /\ LET b == blocks[Obs.block_oid]
       IN  /\ {d.order : d \in LiveSiblings(b.id, b.user_id, b.parent_id)} = {0, 1, 2}
           /\ b.order = 3

\* request p runs, in this step, the find_one_and_update of update_block or
\* the final find_one_and_update of move_block on block i
WritesVersion(p, i) ==
    /\ h[p].pc \in {"update", "move_set"} /\ h[p].block_oid = i
    /\ h'[p].pc \notin {"update", "move_set"}

\* the request under inspection completes, in this step, a successful
\* update_block or move_block of block i
Succeeds(i) ==
    /\ WritesVersion(Observed, i)
    /\ Obs'.pc = "done" /\ Obs'.status = 200

\* a step gives a new block version 1, adds 1 to the version of the block a
\* successful update_block or move_block is completed on, and leaves every
\* other version as it is
C13_VersionStep ==
    \A i \in DOMAIN blocks' :
        IF i \notin DOMAIN blocks THEN blocks'[i].version = 1
        ELSE /\ blocks'[i].version \in {blocks[i].version, blocks[i].version + 1}
             /\ blocks'[i].version = blocks[i].version + 1
                   => \E p \in Procs : WritesVersion(p, i)
             /\ Succeeds(i) => blocks'[i].version = blocks[i].version + 1

\* C13: a block's version is 1 at creation, grows by exactly 1 with every
\* successful update_block (whatever the body, equal to the stored content or
\* not) and every successful move_block, however the requests interleave, and
\* changes in no other way
C13_VersionCounts == [][C13_VersionStep]_vars

\* an update_block whose content equals the stored content has brought the
\* version from 1 to 2
C13_Witness ==
    /\ Obs.pc = "done" /\ Obs.op = "update" /\ Obs.status = 200
    /\ Obs.content = 0 /\ Obs.docs[1].version = 2
    /\ blocks[Obs.block_oid].version >= 2

\* the request under inspection completes, in this step, a successful
\* update_block
UpdateSucceeds ==
    Obs.pc = "update" /\ Obs'.pc = "done" /\ Obs'.status = 200

\* the successful update_block of this step sets, on its block, the fields
\* its body carries, version and updated_at, and nothing else anywhere
C14_UpdateStep ==
    UpdateSucceeds =>
        LET i == Obs.block_oid
            b == blocks[i]
        IN  /\ DOMAIN blocks' = DOMAIN blocks
            /\ \A j \in DOMAIN blocks : j # i => blocks'[j] = blocks[j]
            /\ blocks'[i] =
                  [b EXCEPT !.content = IF Obs.content = NotSet THEN @ ELSE Obs.content,
                            !.block_type = IF Obs.block_type = NotSet THEN @
                                           ELSE Obs.block_type,
                            !.version = blocks'[i].version,
                            !.updated_at = blocks'[i].updated_at]

\* C14: a successful update_block changes, on its block, only the fields
\* present in the body, version and updated_at; parent_id, order, depth,
\* children, deleted_at, the fields the body leaves out and every other block
\* stay as they are
C14_UpdateFrame == [][C14_UpdateStep]_vars

\* an update_block carrying a content and no block_type has been applied
\* next to another block
C14_Witness ==
    /\ Obs.pc = "done" /\ Obs.op = "update" /\ Obs.status = 200
    /\ Obs.content = 1 /\ Obs.block_type = NotSet
    /\ blocks[Obs.block_oid].content = 1 /\ blocks[Obs.block_oid].block_type = 0
    /\ blocks[Obs.block_oid].parent_id # None
    /\ Len(blocks) > 1

\* the ids of a sequence of documents
Ids(docs) == [k \in DOMAIN docs |-> docs[k].id]

\* the state the scenario of C15 ends in: a root R with the children C1 and
\* C2 created in this sequence, C2 moved under R with new_order 0 since
AfterReorder ==
    /\ Len(blocks) = 3
    /\ \A i \in 1..3 : Live(blocks[i]) /\ blocks[i].user_id = blocks[1].user_id
    /\ blocks[1].parent_id = None /\ blocks[1].children = <<2, 3>>
    /\ blocks[2].parent_id = 1 /\ blocks[2].order = 0 /\ blocks[2].version = 1
    /\ blocks[3].parent_id = 1 /\ blocks[3].order = 0 /\ blocks[3].version = 2

\* list_blocks of the children of R, first page, after the scenario of C15
ListsReordered ==
    /\ AfterReorder
    /\ Obs.pc = "done" /\ Obs.op = "list" /\ Obs.status = 200
    /\ Obs.user_id = blocks[1].user_id
    /\ Obs.filter = 1 /\ Obs.offset = 0 /\ Obs.limit >= 2

\* C15 as stated: after the scenario list_blocks with parent filter R returns
\* the children in the sequence [C2, C1]
C15_MovedChildFirst == ListsReordered => Ids(Obs.docs) = <<3, 2>>

\* a step of a move_block changes the order of no block but the moved one,
\* and its final update stores the requested order on the moved one
C15_MoveStep ==
    Obs'.op = "move" /\ Obs'.pc # "idle" =>
        /\ \A j \in DOMAIN blocks :
              j # Obs'.block_oid => blocks'[j].order = blocks[j].order
        /\ Obs.pc = "move_set" => blocks'[Obs.block_oid].order = Obs.order

\* after the scenario list_blocks with parent filter R returns C1 and C2,
\* both of stored order 0, in one sequence or the other
C15_ListsBoth ==
    ListsReordered =>
        /\ Ids(Obs.docs) \in {<<2, 3>>, <<3, 2>>}
        /\ \A k \in DOMAIN Obs.docs : Obs.docs[k].order = 0

\* C15 (amended): move_block does not shift siblings: it stores the requested
\* order on the moved block and leaves the order of every other block as it
\* is; after the scenario C1 and C2 both have stored order 0 and list_blocks
\* with parent filter R returns the two of them, in a sequence the equal
\* orders do not determine
C15_NoSiblingShift == []C15_ListsBoth /\ [][C15_MoveStep]_vars

\* the listing after the scenario has returned [C2, C1]
C15_Witness == ListsReordered /\ Ids(Obs.docs) = <<3, 2>>

\* a delete_block request for the soft-deleted block i of its caller arrives
\* in this step
DeleteOfDeletedArrives(i) ==
    /\ Obs.pc = "idle" /\ Obs'.pc # "idle" /\ Obs'.op = "delete"
    /\ Obs'.block_oid = i /\ blocks[i].user_id = Obs'.user_id
    /\ ~Live(blocks[i])

\* a delete_block request for a soft-deleted block is answered 404 by its
\* first store call, the ownership check, and nothing is written
C16_DeleteStep ==
    \A i \in DOMAIN blocks :
        DeleteOfDeletedArrives(i) =>
            /\ Obs'.pc = "done" /\ Obs'.status = 404
            /\ blocks' = blocks /\ written' = {}

\* C16: delete_block on a block that is already soft-deleted, directly or by
\* the cascade from an ancestor, answers NotFound and changes no stored state
C16_DeleteDeletedNotFound == [][C16_DeleteStep]_vars

\* a delete_block of a block soft-deleted by the cascade from its parent has
\* been answered 404
C16_Witness ==
    /\ Obs.pc = "done" /\ Obs.op = "delete" /\ Obs.status = 404
    /\ Obs.block_oid \in DOMAIN blocks
    /\ LET b == blocks[Obs.block_oid]
       IN  /\ b.user_id = Obs.user_id /\ ~Live(b)
           /\ b.parent_id # None
           /\ b.id \in Range(blocks[b.parent_id].children)
           /\ b.deleted_at = blocks[b.parent_id].deleted_at

\* the ids of the live blocks reached from the ids S in at least 1 and at
\* most k hops over children edges
RECURSIVE WithinHops(_, _)
WithinHops(S, k) ==
    IF k = 0 THEN {}
    ELSE LET nxt == {i \in UNION {Range(blocks[j].children) : j \in S} :
                        Live(blocks[i])}
         IN  nxt \cup WithinHops(nxt, k - 1)

\* the request under inspection gets, in this step, the 200 response of
\* get_block_tree
TreeAnswers == Obs.pc = "tree" /\ Obs'.pc = "done" /\ Obs'.status = 200

\* C17: the descendants get_block_tree returns are exactly the live blocks
\* reachable from the block over children edges in at least 1 and at most
\* max_depth hops
C17_TreeStep ==
    TreeAnswers =>
        {d.id : d \in Obs'.descendants} = WithinHops({Obs.block_oid}, Obs'.max_depth)

C17_WithinMaxDepth == [][C17_TreeStep]_vars

\* the request under inspection runs, in this step, the aggregate of
\* get_block_tree
TreeReads == Obs.pc = "tree" /\ Obs'.pc = "done"

\* the aggregate of get_block_tree answers 404 when the block is missing,
\* owned by another user or soft-deleted as it runs, and a 200 response
\* carries a live block
C18_TreeStep ==
    TreeReads =>
        IF LiveOwned(Obs.block_oid, Obs.user_id)
        THEN Obs'.status = 200 /\ Live(Obs'.docs[1])
        ELSE Obs'.status = 404

\* C18: get_block_tree fails with NotFound whenever its block is missing,
\* owned by another user or soft-deleted at the moment the tree is read, also
\* when a delete_block of the block runs between the ownership check and the
\* tree query
C18_TreeNotFound == [][C18_TreeStep]_vars

\* the live blocks of user_id that the parent filter selects: the roots for
\* None, every block for All, the blocks with that parent_id for an id
Selected(user_id, filter) ==
    {d \in Docs : /\ Live(d) /\ d.user_id = user_id
                  /\ filter = All \/ d.parent_id = filter}

\* document d can stand at position pos of the documents M sorted by order
\* ascending
CanStandAt(d, pos, M) ==
    /\ d \in M
    /\ Cardinality({e \in M : e.order < d.order}) < pos
    /\ Cardinality({e \in M : e.order <= d.order}) >= pos

\* C19: list_blocks returns the live blocks of the caller that the parent
\* filter selects, sorted by order ascending and cut to the page of at most
\* limit blocks from offset on, and total is the number of all the blocks
\* selected, whatever the limit and offset
C19_ListPage ==
    Obs.pc = "done" /\ Obs.op = "list" /\ Obs.status = 200 =>
        LET M == Selected(Obs.user_id, Obs.filter)
            rest == IF Cardinality(M) > Obs.offset THEN Cardinality(M) - Obs.offset ELSE 0
        IN  /\ Obs.total = Cardinality(M)
            /\ Len(Obs.docs) = IF rest < Obs.limit THEN rest ELSE Obs.limit
            /\ \A k \in DOMAIN Obs.docs : CanStandAt(Obs.docs[k], Obs.offset + k, M)
            /\ \A k, l \in DOMAIN Obs.docs : k # l => Obs.docs[k] # Obs.docs[l]

\* a listing of all blocks with offset 1 and limit 1 has returned one block
\* of three, of which one comes before it and one after it
C19_Witness ==
    /\ Obs.pc = "done" /\ Obs.op = "list" /\ Obs.status = 200
    /\ Obs.filter = All /\ Obs.offset = 1 /\ Obs.limit = 1
    /\ Obs.total = 3 /\ Len(Obs.docs) = 1

\* a create_block request with a parent_id in its body arrives and runs its
\* first store call
CreateWithParent ==
    Obs.pc = "idle" /\ Obs'.op = "create" /\ Obs'.data_parent_id # None

C20_CreateStep ==
    CreateWithParent =>
        LET parent_id == Obs'.data_parent_id
        IN  IF parent_id = Malformed
            THEN Obs'.pc = "done" /\ Obs'.status = 400 /\ blocks' = blocks
            ELSE IF ~LiveOwned(parent_id, Obs'.user_id)
            THEN Obs'.pc = "done" /\ Obs'.status = 404 /\ blocks' = blocks
            ELSE Obs'.pc # "done"

\* C20: a create_block with a malformed parent_id is answered 400, and one
\* whose parent_id names no block, a block of another owner or a soft-deleted
\* block is answered 404; the request ends there, so that no block is inserted
\* and no document of the collection changes
C20_BadParentRejected ==
    /\ [](Obs.op = "create" /\ Obs.status \in {400, 404} => Obs.pc = "done")
    /\ [][C20_CreateStep]_vars

\* a create_block under a soft-deleted block of the caller has been answered
\* 404 while a live block with a non-empty children list is in the collection
C20_Witness ==
    /\ Obs.pc = "done" /\ Obs.op = "create" /\ Obs.status = 404
    /\ Obs.data_parent_id \in DOMAIN blocks
    /\ blocks[Obs.data_parent_id].user_id = Obs.user_id
    /\ ~Live(blocks[Obs.data_parent_id])
    /\ \E d \in Docs : Live(d) /\ d.children # <<>>

\* the number of times x occurs in the sequence s
Occurrences(s, x) == Cardinality({i \in DOMAIN s : s[i] = x})

\* the step of a create_block request that runs insert_one
CreateInserts ==
    Obs.pc \in {"idle", "create_insert"} /\ Obs'.op = "create" /\ Obs'.block_oid # None

C21_InsertStep ==
    CreateInserts =>
        LET b == blocks'[Obs'.block_oid]
            parent_id == Obs'.data_parent_id
        IN  /\ Obs'.block_oid = Len(blocks) + 1
            /\ DOMAIN blocks' = 1..(Len(blocks) + 1)
            /\ \A i \in DOMAIN blocks : blocks'[i] = blocks[i]
            /\ b.id = Obs'.block_oid /\ b.user_id = Obs'.user_id
            /\ b.children = <<>> /\ b.version = 1 /\ b.deleted_at = None
            /\ b.created_at = b.updated_at
            /\ b.parent_id = parent_id
            /\ b.depth = IF parent_id = None THEN 0 ELSE blocks[parent_id].depth + 1
            /\ IF parent_id = None THEN Obs'.pc = "done" /\ Obs'.status = 201
               ELSE Obs'.pc = "create_push"

C21_PushStep ==
    Obs.pc = "create_push" =>
        LET parent_id == Obs.data_parent_id
        IN  /\ Obs'.pc = "done" /\ Obs'.status = 201
            /\ DOMAIN blocks' = DOMAIN blocks
            /\ \A i \in DOMAIN blocks \ {parent_id} : blocks'[i] = blocks[i]
            /\ Occurrences(blocks[parent_id].children, Obs.block_oid) = 0
            /\ blocks'[parent_id] =
                  [blocks[parent_id] EXCEPT
                      !.children = Append(@, Obs.block_oid),
                      !.updated_at = blocks'[parent_id].updated_at]

\* C21: a successful create_block stores a new block with user_id the caller,
\* no children, version 1, deleted_at None, created_at = updated_at, depth 0
\* without a parent and the parent's depth + 1 with one; with a parent it
\* appends the new id once to the parent's children; no other block changes
C21_CreatePersists ==
    /\ [](Obs.pc = "done" /\ Obs.op = "create" /\ Obs.status = 201 =>
            /\ Obs.block_oid \in DOMAIN blocks
            /\ Obs.data_parent_id # None =>
                  Occurrences(blocks[Obs.data_parent_id].children, Obs.block_oid) = 1)
    /\ [][C21_InsertStep /\ C21_PushStep]_vars

\* a create_block under a parent of depth 1 that had a child already has
\* succeeded
C21_Witness ==
    /\ Obs.pc = "done" /\ Obs.op = "create" /\ Obs.status = 201
    /\ Obs.data_parent_id # None
    /\ blocks[Obs.data_parent_id].depth = 1
    /\ Len(blocks[Obs.data_parent_id].children) = 2
    /\ blocks[Obs.block_oid].depth = 2

\* a get_block asked right after create_block for the id it returned has
\* answered
RoundTripDone ==
    Obs.pc = "done" /\ Obs.op = "get" /\ Obs.created # <<>>

\* C22: a create_block followed at once by a get_block of the returned id by
\* the same caller gets a response equal in every field to the one
\* create_block returned, with created_at = updated_at, for root and for
\* parented blocks alike
C22_RoundTrip ==
    RoundTripDone =>
        /\ Obs.status = 200
        /\ block_to_response(Obs.docs[1], Obs.micros) = Obs.created[1]
        /\ Obs.created[1].created_at = Obs.created[1].updated_at

\* the messages sent on the observed connection
Sent == Obs.websocket.sent

\* the terminal messages of a generate request
Terminal(m) == m.type \in {"done", "error"}

\* a generate request with a non-empty prompt is being served
Generating == Obs.pc = "ws_generate"

\* every chunk sent is chunk k of the request it was generated for, stands
\* right after chunk k - 1 of that request (first of its request when k = 1,
\* and then not after a chunk), and is followed by the next chunk of its
\* request or by a terminal message, or is the last message sent while its
\* request is still being served
C23_ChunksInOrder ==
    \A i \in DOMAIN Sent :
        Sent[i].type = "chunk" =>
            LET r == Sent[i].text[1]
                k == Sent[i].text[2]
            IN  /\ IF k = 1 THEN i = 1 \/ Sent[i - 1].type # "chunk"
                   ELSE i > 1 /\ Sent[i - 1] = ChunkMessage(<<r, k - 1>>)
                /\ IF i < Len(Sent)
                   THEN Sent[i + 1] = ChunkMessage(<<r, k + 1>>) \/ Terminal(Sent[i + 1])
                   ELSE Generating /\ Obs.received = r
                /\ \A j \in DOMAIN Sent :
                      j > i /\ Sent[j].type = "chunk" => Sent[j].text[1] >= r

\* a request that was served has got one terminal message, sent last, on the
\* step that ended the generation: done with the connection's user id when
\* the generator ended, error when it raised ClaudeServiceError
C23_StreamStep ==
    /\ Generating =>
          /\ Len(Sent') = Len(Sent) + 1
          /\ SubSeq(Sent', 1, Len(Sent)) = Sent
          /\ LET m == Sent'[Len(Sent')]
             IN  IF Generating'
                 THEN /\ m = ChunkMessage(<<Obs.received, Obs'.stream.yielded>>)
                      /\ Obs'.stream.yielded = Obs.stream.yielded + 1
                      /\ Obs'.received = Obs.received
                 ELSE /\ Terminal(m)
                      /\ Obs'.stream.raised = "StopAsyncIteration" =>
                            m.type = "done" /\ m.user_id = Obs.token
                      /\ Obs'.stream.raised = "ClaudeServiceError" => m.type = "error"
                      /\ Obs'.stream.raised # "none"
    /\ ~Generating =>
          /\ \A i \in DOMAIN Sent' : i > Len(Sent) => Sent'[i].type \notin {"chunk", "done"}
          /\ (Obs.pc = "ws_receive" /\ Obs'.received > Obs.received
               /\ Obs'.data.action = "generate" /\ Obs'.data.prompt \notin {None, Empty})
              => Generating' /\ Sent' = Sent

\* a connection whose token is missing or empty is closed, was never accepted
\* and has neither received nor sent a message
C23_NoTokenClosed ==
    Obs.op = "ai_stream" /\ Obs.token \in {None, Empty} =>
        /\ Obs.websocket.state = "closed" /\ Obs.pc = "ws_returned"
        /\ Obs.received = 0 /\ Sent = <<>>

ListedIn(x, oid) == oid \in DOMAIN blocks /\ x \in Range(blocks[oid].children)

\* the observed request is a move_block from one parent to another that has
\* passed its validation
MovingBetweenParents ==
    /\ Obs.op = "move" /\ Obs.pc \in {"move_pull", "move_push", "move_set"}
    /\ Obs.old_parent_id # None /\ Obs.parent_oid # None
    /\ Obs.old_parent_id # Obs.parent_oid

\* what is stored while a move between two parents is between its writes
C24_Between ==
    MovingBetweenParents =>
        LET b == Obs.block_oid
            old == ListedIn(b, Obs.old_parent_id)
            new == ListedIn(b, Obs.parent_oid)
        IN  /\ blocks[b].parent_id = Obs.old_parent_id
            /\ ~(old /\ new)
            /\ Obs.pc = "move_pull" => old /\ ~new
            /\ Obs.pc = "move_push" => ~old /\ ~new
            /\ Obs.pc = "move_set" => ~old /\ new

\* the store calls of a move_block, one per step: reads first, then the pull
\* on the old parent, the push on the new parent, the update of the block
C24_WriteStep ==
    Obs.op = "move" /\ Obs.pc \in {"move", "move_parent", "move_pull", "move_push", "move_set"} =>
        /\ Obs.pc \in {"move", "move_parent"} =>
              /\ blocks' = blocks
              /\ Obs'.pc \in {"move_parent", "done", MoveFirstWrite(Obs'.old_parent_id, Obs'.parent_oid)}
        /\ Obs.pc = "move_pull" =>
              /\ written' = {Obs.old_parent_id}
              /\ \A i \in DOMAIN blocks \ {Obs.old_parent_id} : blocks'[i] = blocks[i]
              /\ Obs'.pc = IF Obs.parent_oid # None THEN "move_push" ELSE "move_set"
        /\ Obs.pc = "move_push" =>
              /\ written' = {Obs.parent_oid}
              /\ \A i \in DOMAIN blocks \ {Obs.parent_oid} : blocks'[i] = blocks[i]
              /\ Obs'.pc = "move_set"
        /\ Obs.pc = "move_set" =>
              /\ written' = {Obs.block_oid}
              /\ \A i \in DOMAIN blocks \ {Obs.block_oid} : blocks'[i] = blocks[i]
              /\ blocks'[Obs.block_oid].parent_id = Obs.parent_oid
              /\ Obs'.pc = "done"

\* C24: one move_block writes in the order pull from the old parent, push
\* to the new parent, update of the block, after all of its validation
\* reads; so a move between two different parents cut after the pull leaves
\* the block in neither children list, cut after the push in the new
\* parent's only, with parent_id still the old parent, and never in both
C24_MoveWriteOrder == []C24_Between /\ [][C24_WriteStep]_vars

\* a move between two parents has pulled and pushed and not yet updated the
\* block
C24_Witness ==
    /\ MovingBetweenParents /\ Obs.pc = "move_set"
    /\ ListedIn(Obs.block_oid, Obs.parent_oid)
    /\ ~ListedIn(Obs.block_oid, Obs.old_parent_id)
    /\ blocks[Obs.block_oid].parent_id = Obs.old_parent_id

\* a step of the observed move_block request before any of its writes: the
\* ownership check, the load of the block, the load of the new parent
MoveValidates ==
    /\ Obs'.op = "move" /\ Obs' # Obs
    /\ Obs.pc \in {"idle", "move", "move_parent"}

\* the observed move_block request is answered with an error
MoveFails ==
    Obs'.op = "move" /\ Obs.pc # "done" /\ Obs'.pc = "done" /\ Obs'.status # 200

C25_FailStep ==
    /\ MoveFails => MoveValidates /\ Obs'.status \in {400, 404}
    /\ MoveValidates =>
          /\ blocks' = blocks /\ written' = {}
          /\ Obs.pc = "idle" /\ Obs'.block_oid # Malformed
              /\ ~LiveOwned(Obs'.block_oid, Obs'.user_id)
                => Obs'.pc = "done" /\ Obs'.status = 404
          /\ Obs.pc = "move" /\ ~LiveOwned(Obs.block_oid, Obs.user_id)
                => Obs'.pc = "done" /\ Obs'.status = 404
          /\ Obs.pc = "move" /\ LiveOwned(Obs.block_oid, Obs.user_id)
              /\ Obs.new_parent_id \in {Malformed, Obs.block_oid}
                => Obs'.pc = "done" /\ Obs'.status = 400
          /\ Obs.pc = "move_parent" /\ ~LiveOwned(Obs.parent_oid, Obs.user_id)
                => Obs'.pc = "done" /\ Obs'.status = 404

\* C25: a move_block that fails - 404 for a block that is missing, deleted or
\* of another owner, 400 for a malformed new_parent_id or one equal to the
\* block's id, 404 for a new parent that is missing, deleted or of another
\* owner - has issued no write: every document is as it was
C25_FailedMoveWritesNothing == [][C25_FailStep]_vars

\* a move_block of a block listed in its parent's children to a soft-deleted
\* new parent has been answered 404
C25_Witness ==
    /\ Obs.pc = "done" /\ Obs.op = "move" /\ Obs.status = 404
    /\ LiveOwned(Obs.block_oid, Obs.user_id)
    /\ Obs.parent_oid \in DOMAIN blocks /\ ~Live(blocks[Obs.parent_oid])
    /\ ListedIn(Obs.block_oid, Obs.old_parent_id)

\* the fields of a block that move_block's final update sets
Placement(doc) == <<doc.parent_id, doc.order, doc.depth>>

\* request p runs the final update of its move_block on block b
FinalUpdate(p, b) ==
    h[p].op = "move" /\ h[p].pc = "move_set" /\ h[p].block_oid = b /\ h'[p] # h[p]

C26_PlacementStep ==
    \A b \in DOMAIN blocks :
        /\ Placement(blocks'[b]) # Placement(blocks[b]) => \E p \in Procs : FinalUpdate(p, b)
        /\ \A p \in Procs :
              FinalUpdate(p, b) =>
                  /\ Placement(blocks'[b]) = <<h[p].parent_oid, h[p].order, h[p].depth>>
                  /\ blocks'[b].version = blocks[b].version + 1

\* C26: when two move_block calls on one block with different targets
\* overlap, parent_id, order and depth of the block are at every moment, and
\* so after both have completed, the three values one call wrote together
\* (the call whose final update ran last), never a mixture, and each final
\* update adds one to version, two in all
C26_LastWriteWins == [][C26_PlacementStep]_vars

\* the observed move_block has answered, the overlapping move_block of the
\* same block to another target ran its final update last, and version has
\* grown by two since the block was created
C26_Witness ==
    /\ Obs.pc = "done" /\ Obs.op = "move" /\ Obs.status = 200
    /\ blocks[Obs.block_oid].version = 3
    /\ Obs.docs[1].version = 2
    /\ blocks[Obs.block_oid].parent_id # Obs.parent_oid
    /\ \A p \in Procs : h[p].pc \in {"idle", "done"}

C27_DeletedStep ==
    \A b \in DOMAIN blocks : ~Live(blocks[b]) => blocks'[b] = blocks[b]

\* C27: once deleted_at of a block is set, no later or overlapping
\* update_block, move_block, create_block under it or delete_block changes
\* any of its fields: the block stays as the delete wrote it
C27_DeletedFrozen == [][C27_DeletedStep]_vars

\* C28: whenever no request is in flight, after any interleaving of
\* create_block, move_block and delete_block, the children of a live block
\* are ids of live blocks only
C28_LiveChildrenOnly ==
    Quiet =>
        \A d \in Docs : Live(d) =>
            \A c \in Range(d.children) : c \in DOMAIN blocks /\ Live(blocks[c])

\* C29: children is a set: after any interleaving of create_block,
\* move_block and delete_block, a move to the block's current parent and two
\* overlapping moves of one block to the same new parent included, no
\* children list holds the same id more than once
C29_ChildrenIsSet ==
    \A d \in Docs : \A c \in Range(d.children) : Occurrences(d.children, c) = 1

\* C30: in any interleaving of create_block calls without an order and of
\* delete_block calls, no two live blocks of one owner under one parent have
\* the same order; two overlapping creates under one parent get different
\* orders
C30_DistinctOrders ==
    \A d, e \in Docs :
        /\ d.id # e.id /\ Live(d) /\ Live(e)
        /\ d.user_id = e.user_id /\ d.parent_id = e.parent_id
        => d.order # e.order

====
